---- MODULE Spec2Model ----
(***************************************************************************)
(* A model of analyse_pdf.py: the batch driver (main), the text            *)
(* acquisition chain (extract_text_any), the per-document pipeline         *)
(* (process_pdf) and the pure text functions they are built from.          *)
(* Texts are TLA+ strings; a character is a string of length one.          *)
(***************************************************************************)
EXTENDS Integers, Sequences, FiniteSets, TLC

(***************************************************************************)
(* Characters and the str methods the program uses.                        *)
(***************************************************************************)
Char(s, k) == SubSeq(s, k, k)

NBSP == " "

\* str.isspace() / regex \s, restricted to the characters the model uses
WhiteSpace == {" ", "\t", "\n", "\r", "\f", NBSP}

\* the line boundaries of str.splitlines(), restricted likewise
LineBreaks == {"\n", "\r", "\f"}

Digits == {"0", "1", "2", "3", "4", "5", "6", "7", "8", "9"}

UpperChars == "ABCDEFGHIJKLMNOPQRSTUVWXYZÈÉ"
LowerChars == "abcdefghijklmnopqrstuvwxyzèé"
UpperSet == {Char(UpperChars, k) : k \in 1..Len(UpperChars)}
LowerSet == {Char(LowerChars, k) : k \in 1..Len(LowerChars)}
LowerOf == [c \in UpperSet |->
              Char(LowerChars, CHOOSE k \in 1..Len(UpperChars) : Char(UpperChars, k) = c)]
UpperOf == [c \in LowerSet |->
              Char(UpperChars, CHOOSE k \in 1..Len(LowerChars) : Char(LowerChars, k) = c)]

\* "".join(parts[lo..hi]), halving the range
RECURSIVE ConcatRange(_, _, _)
ConcatRange(parts, lo, hi) ==
    IF lo > hi THEN ""
    ELSE IF lo = hi THEN parts[lo]
    ELSE LET mid == (lo + hi) \div 2
         IN  ConcatRange(parts, lo, mid) \o ConcatRange(parts, mid + 1, hi)

Concat(parts) == ConcatRange(parts, 1, Len(parts))

\* str.lower()
Lower(s) == Concat([k \in 1..Len(s) |->
                      IF Char(s, k) \in UpperSet THEN LowerOf[Char(s, k)] ELSE Char(s, k)])

\* str.upper()
Upper(s) == Concat([k \in 1..Len(s) |->
                      IF Char(s, k) \in LowerSet THEN UpperOf[Char(s, k)] ELSE Char(s, k)])

\* needle in hay
Contains(hay, needle) ==
    \E k \in 1..(Len(hay) - Len(needle) + 1) : SubSeq(hay, k, k + Len(needle) - 1) = needle

\* hay[k:].startswith(needle), k counted from 1
StartsAt(hay, k, needle) ==
    /\ k + Len(needle) - 1 <= Len(hay)
    /\ SubSeq(hay, k, k + Len(needle) - 1) = needle

\* str.replace(old, new) for a one-character old
ReplaceChar(s, c, d) == Concat([k \in 1..Len(s) |-> IF Char(s, k) = c THEN d ELSE Char(s, k)])

\* str.replace(old, "")
RemoveChar(s, c) == ReplaceChar(s, c, "")

\* the elements of a set of integers in increasing order
SortedSeq(S) ==
    [n \in 1..Cardinality(S) |-> CHOOSE x \in S : Cardinality({y \in S : y < x}) = n - 1]

\* str.rstrip()
RStrip(s) ==
    LET keep == {k \in 1..Len(s) : Char(s, k) \notin WhiteSpace}
    IN  IF keep = {} THEN ""
        ELSE SubSeq(s, 1, CHOOSE k \in keep : \A j \in keep : j <= k)

\* str.lstrip()
LStrip(s) ==
    LET keep == {k \in 1..Len(s) : Char(s, k) \notin WhiteSpace}
    IN  IF keep = {} THEN ""
        ELSE SubSeq(s, CHOOSE k \in keep : \A j \in keep : k <= j, Len(s))

\* str.strip()
Strip(s) == LStrip(RStrip(s))

\* str.splitlines(): a line ends at a boundary character ("\r\n" is one boundary);
\* what follows the last boundary is a line only when it is not empty
SplitLines(s) ==
    LET isCrLf(k) == Char(s, k) = "\r" /\ k < Len(s) /\ Char(s, k + 1) = "\n"
        \* the positions where a boundary ends
        ends   == SortedSeq({k \in 1..Len(s) : Char(s, k) \in LineBreaks /\ ~isCrLf(k)})
        from(n) == IF n = 1 THEN 1 ELSE ends[n - 1] + 1
        upto(n) == IF ends[n] > 1 /\ isCrLf(ends[n] - 1) THEN ends[n] - 2 ELSE ends[n] - 1
        closed == [n \in 1..Len(ends) |-> SubSeq(s, from(n), upto(n))]
        rest   == SubSeq(s, from(Len(ends) + 1), Len(s))
    IN  IF rest = "" THEN closed ELSE Append(closed, rest)

\* sep.join(parts)
Join(parts, sep) ==
    IF Len(parts) = 0 THEN ""
    ELSE Concat([k \in 1..(2 * Len(parts) - 1) |->
                   IF k % 2 = 1 THEN parts[(k + 1) \div 2] ELSE sep])

\* re.sub(r"[  ]+", " ", ln)
CollapseSpaces(ln) ==
    Concat([k \in 1..Len(ln) |->
              IF Char(ln, k) \in {" ", NBSP}
              THEN (IF k > 1 /\ Char(ln, k - 1) \in {" ", NBSP} THEN "" ELSE " ")
              ELSE Char(ln, k)])

\* the per-line part of norm_spaces_keep_lines
NormLine(ln) == RStrip(CollapseSpaces(ln))

norm_spaces_keep_lines(s) ==
    LET lns == SplitLines(RemoveChar(s, "\r"))
    IN  Join([k \in 1..Len(lns) |-> NormLine(lns[k])], "\n")

\* re.sub(r"\s+", " ", s)
CollapseWhite(s) ==
    Concat([k \in 1..Len(s) |->
              IF Char(s, k) \in WhiteSpace
              THEN (IF k > 1 /\ Char(s, k - 1) \in WhiteSpace THEN "" ELSE " ")
              ELSE Char(s, k)])

\* strip_ok without the strip: any text that is not the empty string passes
strip_ok_unstripped(s) == s # ""

squash(s) == Strip(CollapseWhite(s))

strip_ok(s) == s # "" /\ Strip(s) # ""

(***************************************************************************)
(* dict: a function from keys to values; None is the absent value.         *)
(***************************************************************************)
None == "<None>"

EmptyDict == [k \in {} |-> ""]

\* d[key] = val
DictSet(d, key, val) == [k \in DOMAIN d \cup {key} |-> IF k = key THEN val ELSE d[k]]

\* d.update(e)
DictUpdate(d, e) == [k \in DOMAIN d \cup DOMAIN e |-> IF k \in DOMAIN e THEN e[k] ELSE d[k]]

\* d.get(key, "")
DictGet(d, key) == IF key \in DOMAIN d THEN d[key] ELSE ""

Max(a, b) == IF a >= b THEN a ELSE b
Min(a, b) == IF a <= b THEN a ELSE b

(***************************************************************************)
(* Numeric tokens: TOKEN_RE = -?\d+(?:[.,]\d+)?(?:\s*€)? and its cleaner.  *)
(***************************************************************************)
\* the position after the run of characters of class cls that starts at k
RunEnd(s, k, cls) ==
    LET stops == {j \in k..Len(s) : Char(s, j) \notin cls}
    IN  IF stops = {} THEN Max(k, Len(s) + 1)
        ELSE CHOOSE j \in stops : \A h \in stops : j <= h

\* the position after the match of NUM_TOKEN that starts at k, or 0 when none does
TokenEnd(s, k) ==
    LET p0 == IF Char(s, k) = "-" THEN k + 1 ELSE k
        p1 == RunEnd(s, p0, Digits)
        p2 == IF /\ p1 + 1 <= Len(s)
                 /\ Char(s, p1) \in {".", ","}
                 /\ Char(s, p1 + 1) \in Digits
              THEN RunEnd(s, p1 + 1, Digits)
              ELSE p1
        q  == RunEnd(s, p2, WhiteSpace)
        p3 == IF q <= Len(s) /\ Char(s, q) = "€" THEN q + 1 ELSE p2
    IN  IF p1 = p0 THEN 0 ELSE p3

\* TOKEN_RE.findall(s): the non-overlapping matches, left to right, from position k on
RECURSIVE FindTokens(_, _)
FindTokens(s, k) ==
    LET \* a match starts at a digit, or at a minus sign that a digit follows
        starts == {j \in k..Len(s) :
                     \/ Char(s, j) \in Digits
                     \/ Char(s, j) = "-" /\ j < Len(s) /\ Char(s, j + 1) \in Digits}
    IN  IF starts = {} THEN <<>>
        ELSE LET b == CHOOSE j \in starts : \A h \in starts : j <= h
             IN  <<SubSeq(s, b, TokenEnd(s, b) - 1)>> \o FindTokens(s, TokenEnd(s, b))

clean_num_tok(tok) ==
    IF tok = "" THEN "" ELSE ReplaceChar(Strip(RemoveChar(tok, "€")), ",", ".")

(***************************************************************************)
(* Label dictionaries, in source order: <<canonical name, variants>>.      *)
(***************************************************************************)
LABELS_CA == <<
    <<"CA total", <<"CA Total", "Total CA", "Total", "Total turnover">> >>,
    <<"CA Espece", <<"CA Espèces", "CA Espece", "Espèces", "Cash", "Cash turnover">> >>,
    <<"CA Cashless1", <<"Cashless 1", "Cashless turnover 1">> >>,
    <<"CA Cashless1 Aztek", <<"Cashless 1 Aztek", "Aztek cashless turnover 1", "Aztek 1">> >>,
    <<"CA Cashless2", <<"Cashless 2", "Cashless turnover 2">> >>,
    <<"CA Cashless2 Aztek", <<"Cashless 2 Aztek", "Aztek cashless turnover 2", "Aztek 2">> >> >>

LABELS_VENTES == <<
    <<"Vente Total", <<"Ventes Total", "Vente Total", "Total vends", "Total sales">> >>,
    <<"Vente Espece", <<"Ventes Espèces", "Vente Espèces", "Cash vends", "Cash sales", "Vends Cash">> >>,
    <<"Vente Cashless1", <<"Ventes Cashless 1", "Vente Cashless 1", "Cashless vends 1", "Cashless sales 1">> >>,
    <<"Vente Cashless1 Aztek", <<"Ventes Cashless 1 Aztek", "Vente Cashless 1 Aztek", "Aztek cashless vends 1", "Aztek sales 1">> >>,
    <<"Vente Cashless2", <<"Ventes Cashless 2", "Vente Cashless 2", "Cashless vends 2", "Cashless sales 2">> >>,
    <<"Vente Cashless2 Aztek", <<"Ventes Cashless 2 Aztek", "Vente Cashless 2 Aztek", "Aztek cashless vends 2", "Aztek sales 2">> >> >>

COL_HEADERS == <<
    <<"Cumul", "Cumulation", "Cumulated", "Cumulative">>,
    <<"Interim", "Interim.">>,
    <<"Interim 2", "Interim2", "Interim2.", "Interim. 2", "Interim.2">> >>

Slots == <<"Cumul", "Interim", "Interim2">>

SlotKey(canon, slot) == canon \o "_" \o slot

CanonsOf(label_map) == [k \in 1..Len(label_map) |-> label_map[k][1]]

Range(f) == {f[k] : k \in DOMAIN f}

\* the column schema, in column order
HEADERS == <<
    "id", "date", "Numéro de relevé",
    "CA total_Cumul", "CA total_Interim", "CA total_Interim2",
    "CA Espece_Cumul", "CA Espece_Interim", "CA Espece_Interim2",
    "CA Cashless1_Cumul", "CA Cashless1_Interim", "CA Cashless1_Interim2",
    "CA Cashless1 Aztek_Cumul", "CA Cashless1 Aztek_Interim", "CA Cashless1 Aztek_Interim2",
    "CA Cashless2_Cumul", "CA Cashless2_Interim", "CA Cashless2_Interim2",
    "CA Cashless2 Aztek_Cumul", "CA Cashless2 Aztek_Interim", "CA Cashless2 Aztek_Interim2",
    "Vente Total_Cumul", "Vente Total_Interim", "Vente Total_Interim2",
    "Vente Espece_Cumul", "Vente Espece_Interim", "Vente Espece_Interim2",
    "Vente Cashless1_Cumul", "Vente Cashless1_Interim", "Vente Cashless1_Interim2",
    "Vente Cashless1 Aztek_Cumul", "Vente Cashless1 Aztek_Interim", "Vente Cashless1 Aztek_Interim2",
    "Vente Cashless2_Cumul", "Vente Cashless2_Interim", "Vente Cashless2_Interim2",
    "Vente Cashless2 Aztek_Cumul", "Vente Cashless2 Aztek_Interim", "Vente Cashless2 Aztek_Interim2",
    "Code gratuit 1", "Code gratuit 2", "Code gratuit 3", "Code gratuit 4",
    "Code gratuit 5", "Code gratuit 6", "Code gratuit 7", "key 1" >>

\* idx[key] = canon on an insertion-ordered dict: <<key, value>> pairs in insertion order
OrderedSet(idx, key, val) ==
    IF \E p \in 1..Len(idx) : idx[p][1] = key
    THEN [p \in 1..Len(idx) |-> IF idx[p][1] = key THEN <<key, val>> ELSE idx[p]]
    ELSE Append(idx, <<key, val>>)

RECURSIVE IndexVariants(_, _, _, _)
IndexVariants(idx, canon, variants, k) ==
    IF k > Len(variants) THEN idx
    ELSE IndexVariants(OrderedSet(idx, Lower(variants[k]), canon), canon, variants, k + 1)

RECURSIVE IndexLabels(_, _, _)
IndexLabels(idx, label_map, k) ==
    IF k > Len(label_map) THEN idx
    ELSE IndexLabels(IndexVariants(idx, label_map[k][1], label_map[k][2], 1), label_map, k + 1)

build_reverse_index(label_map) == IndexLabels(<<>>, label_map, 1)

IDX_CA == build_reverse_index(LABELS_CA)
IDX_V == build_reverse_index(LABELS_VENTES)

\* the first entry of idx whose variant the lowered line contains, or 0
FirstVariantHit(idx, low) ==
    LET hits == {p \in 1..Len(idx) : Contains(low, idx[p][1])}
    IN  IF hits = {} THEN 0 ELSE CHOOSE p \in hits : \A q \in hits : p <= q

canonical_from_line(ln, is_ca) ==
    LET low == Lower(ln)
        idx == IF is_ca THEN IDX_CA ELSE IDX_V
        hit == FirstVariantHit(idx, low)
        has(w) == Contains(low, w)
    IN  IF hit # 0 THEN idx[hit][2]
        ELSE IF has("cashless") /\ has("1") /\ has("aztek")
             THEN (IF is_ca THEN "CA Cashless1 Aztek" ELSE "Vente Cashless1 Aztek")
        ELSE IF has("cashless") /\ has("2") /\ has("aztek")
             THEN (IF is_ca THEN "CA Cashless2 Aztek" ELSE "Vente Cashless2 Aztek")
        ELSE IF has("cashless") /\ has("1")
             THEN (IF is_ca THEN "CA Cashless1" ELSE "Vente Cashless1")
        ELSE IF has("cashless") /\ has("2")
             THEN (IF is_ca THEN "CA Cashless2" ELSE "Vente Cashless2")
        ELSE IF has("espèces") \/ has("especes") \/ has("cash ")
             THEN (IF is_ca THEN "CA Espece" ELSE "Vente Espece")
        ELSE IF has("total")
             THEN (IF is_ca THEN "CA total" ELSE "Vente Total")
        ELSE None

HeaderScanLines == 200

\* a line naming a Cumul column and an Interim column
IsColHeader(ln) ==
    /\ \E x \in Range(COL_HEADERS[1]) : Contains(Lower(ln), Lower(x))
    /\ \E x \in Range(COL_HEADERS[2]) : Contains(Lower(ln), Lower(x))

RECURSIVE FirstColHeader(_, _, _)
FirstColHeader(lines_norm, k, last) ==
    IF k > last THEN 0
    ELSE IF IsColHeader(lines_norm[k]) THEN k
    ELSE FirstColHeader(lines_norm, k + 1, last)

\* the index (from 1) of the first such line among the first lines; 0 is None
find_col_header_positions(lines_norm) ==
    FirstColHeader(lines_norm, 1, Min(Len(lines_norm), HeaderScanLines))

\* the cleaned, non-empty numeric tokens of one line
RECURSIVE CleanAll(_, _)
CleanAll(toks, k) ==
    IF k > Len(toks) THEN <<>>
    ELSE (IF clean_num_tok(toks[k]) # "" THEN <<clean_num_tok(toks[k])>> ELSE <<>>)
         \o CleanAll(toks, k + 1)

LineNums(ln) == CleanAll(FindTokens(ln, 1), 1)

RECURSIVE NumsFrom(_, _, _, _)
NumsFrom(lines_norm, j, last, nums) ==
    IF j > last \/ Len(nums) >= 3 THEN nums
    ELSE NumsFrom(lines_norm, j + 1, last, nums \o LineNums(lines_norm[j]))

\* nums[:3]
FirstThree(nums) == SubSeq(nums, 1, Min(3, Len(nums)))

\* lines are numbered from 1: range(start, min(start + max_span, len)) is start..last
parse_numbers_from_near(lines_norm, start_idx, max_span) ==
    FirstThree(NumsFrom(lines_norm, start_idx,
                        Min(start_idx + max_span - 1, Len(lines_norm)), <<>>))

MaxSpan == 6

\* a, b, c = (nums + ["", "", ""])[:3]
PadThree(nums) == SubSeq(nums \o <<"", "", "">>, 1, 3)

\* the triple feed_section reads for line i: the numbers near max(i, header_idx)
Triple(lines_norm, header_idx, i) ==
    PadThree(parse_numbers_from_near(lines_norm,
                                     IF header_idx = 0 THEN i ELSE Max(i, header_idx),
                                     MaxSpan))

\* the body of the loop of feed_section once line i resolved to canon and read abc
StoreTriple(out, canon, abc) ==
    IF canon = None THEN out
    ELSE [key \in DOMAIN out \cup {SlotKey(canon, sl) : sl \in Range(Slots)} |->
            IF key = SlotKey(canon, "Cumul") THEN abc[1]
            ELSE IF key = SlotKey(canon, "Interim") THEN abc[2]
            ELSE IF key = SlotKey(canon, "Interim2") THEN abc[3]
            ELSE out[key]]

\* one iteration of the loop of feed_section: line i of lines_norm
FeedLine(out, lines_norm, header_idx, is_ca, i) ==
    StoreTriple(out, canonical_from_line(lines_norm[i], is_ca),
                Triple(lines_norm, header_idx, i))

RECURSIVE FeedFrom(_, _, _, _, _)
FeedFrom(out, lines_norm, header_idx, is_ca, i) ==
    IF i > Len(lines_norm) THEN out
    ELSE FeedFrom(FeedLine(out, lines_norm, header_idx, is_ca, i),
                  lines_norm, header_idx, is_ca, i + 1)

feed_section(out, lines_norm, header_idx, is_ca) ==
    FeedFrom(out, lines_norm, header_idx, is_ca, 1)

\* the non-blank lines of the text, each normalized
NonBlankLines(text) == SelectSeq(SplitLines(text), LAMBDA ln : Strip(ln) # "")

LinesNorm(text) ==
    LET lines == NonBlankLines(text)
    IN  [k \in 1..Len(lines) |-> norm_spaces_keep_lines(lines[k])]

parse_blocks_adaptive(text) ==
    LET lines_norm == LinesNorm(text)
        header_idx == find_col_header_positions(lines_norm)
    IN  feed_section(feed_section(EmptyDict, lines_norm, header_idx, TRUE),
                     lines_norm, header_idx, FALSE)

(***************************************************************************)
(* Anchored patterns of the header and code extractors.  A position is     *)
(* counted from 1; position 0 is "no match" and every step passes it on.   *)
(***************************************************************************)
AsciiLetters == (UpperSet \cup LowerSet) \ {"È", "É", "è", "é"}

\* regex \w, restricted to the characters the model uses
WordChars == UpperSet \cup LowerSet \cup Digits \cup {"_"}

Lit(s, p, lit) == IF p # 0 /\ StartsAt(s, p, lit) THEN p + Len(lit) ELSE 0

OneOf(s, p, cls) == IF p # 0 /\ p <= Len(s) /\ Char(s, p) \in cls THEN p + 1 ELSE 0

\* cls* and cls+
Many0(s, p, cls) == IF p = 0 THEN 0 ELSE RunEnd(s, p, cls)
Many1(s, p, cls) == IF p # 0 /\ RunEnd(s, p, cls) > p THEN RunEnd(s, p, cls) ELSE 0

\* the least element of a non-empty set of integers
Least(S) == CHOOSE x \in S : \A y \in S : x <= y

\* \d{2}/\d{2}/\d{4} at p
DateEnd(s, p) ==
    LET d(q) == OneOf(s, q, Digits)
    IN  d(d(d(d(Lit(s, d(d(Lit(s, d(d(p)), "/"))), "/")))))

IsBoundary(s, p) ==
    \* \b between positions p - 1 and p
    LET before == p > 1 /\ Char(s, p - 1) \in WordChars
        after  == p <= Len(s) /\ Char(s, p) \in WordChars
    IN  before # after

\* get_first(r"\b(\d{2}/\d{2}/\d{4})\b", text)
FirstDate(s) ==
    LET hits == {p \in 1..Len(s) :
                   /\ DateEnd(s, p) # 0
                   /\ IsBoundary(s, p)
                   /\ IsBoundary(s, DateEnd(s, p))}
    IN  IF hits = {} THEN "" ELSE Strip(SubSeq(s, Least(hits), DateEnd(s, Least(hits)) - 1))

\* re.sub(r"\s*\d{2}/\d{2}/\d{4}.*$", "", s): cut from the blanks before the first date
CutFromDate(s) ==
    LET hits == {p \in 1..Len(s) : DateEnd(s, Many0(s, p, WhiteSpace)) # 0}
    IN  IF hits = {} THEN s ELSE SubSeq(s, 1, Least(hits) - 1)

\* (?:Num[ée]ro\s+de\s+relev[ée]|Report\s+number)\s*:\s*  at p of the lowered text:
\* the position where the number group starts
ReportLabelEnd(low, p) ==
    LET fr == OneOf(low, Lit(low, Many1(low, Lit(low, Many1(low,
                 Lit(low, OneOf(low, Lit(low, p, "num"), {"é", "e"}), "ro"),
                 WhiteSpace), "de"), WhiteSpace), "relev"), {"é", "e"})
        en == Lit(low, Many1(low, Lit(low, p, "report"), WhiteSpace), "number")
        label == IF fr # 0 THEN fr ELSE en
    IN  Many0(low, Lit(low, Many0(low, label, WhiteSpace), ":"), WhiteSpace)

FirstReportNumber(s) ==
    LET low == Lower(s)
        hits == {p \in 1..Len(s) : Many1(low, ReportLabelEnd(low, p), Digits) # 0}
        g == ReportLabelEnd(low, Least(hits))
    IN  IF hits = {} THEN "" ELSE Strip(SubSeq(s, g, Many1(low, g, Digits) - 1))

HeaderIdLines == 150

\* the first of the first lines that names the brand, squashed, its date suffix cut
HeaderId(lines) ==
    LET scanned == {k \in 1..Min(Len(lines), HeaderIdLines) : Contains(Upper(lines[k]), "TOUCH")}
    IN  IF scanned = {} THEN "" ELSE Strip(CutFromDate(squash(lines[Least(scanned)])))

parse_header(text) ==
    LET lines == NonBlankLines(text)
        joined == Join(lines, "\n")
    IN  [k \in {"id", "date", "Numéro de relevé"} |->
            IF k = "id" THEN HeaderId(lines)
            ELSE IF k = "date" THEN FirstDate(joined)
            ELSE FirstReportNumber(joined)]

\* (?:Code\s+gratuit|Free\s+code)\s+ at p of the lowered text: where the index starts
CodeLabelEnd(low, p) ==
    LET fr == Lit(low, Many1(low, Lit(low, p, "code"), WhiteSpace), "gratuit")
        en == Lit(low, Many1(low, Lit(low, p, "free"), WhiteSpace), "code")
    IN  Many1(low, IF fr # 0 THEN fr ELSE en, WhiteSpace)

\* where the value starts, after (\d+)\s*:\s*
CodeValueStart(low, p) ==
    Many0(low, Lit(low, Many0(low, Many1(low, CodeLabelEnd(low, p), Digits), WhiteSpace), ":"),
          WhiteSpace)

\* the position after [0-9]+(?:\*\*[0-9]/[0-9])? at g
CodeValueEnd(low, g) ==
    LET e == Many1(low, g, Digits)
        f == OneOf(low, Lit(low, OneOf(low, Lit(low, e, "**"), Digits), "/"), Digits)
    IN  IF f # 0 THEN f ELSE e

\* the position after the whole code match at p, or 0
CodeEnd(low, p) == CodeValueEnd(low, CodeValueStart(low, p))

\* re.findall over flat, from position k on, each match stored under its key in turn
RECURSIVE CodesFrom(_, _, _, _)
CodesFrom(flat, low, k, out) ==
    LET hits == {p \in k..Len(flat) : CodeEnd(low, p) # 0}
        p == Least(hits)
        i == CodeLabelEnd(low, p)
        g == CodeValueStart(low, p)
        idx == SubSeq(flat, i, Many1(low, i, Digits) - 1)
        val == SubSeq(flat, g, CodeEnd(low, p) - 1)
    IN  IF hits = {} THEN out
        ELSE CodesFrom(flat, low, CodeEnd(low, p), DictSet(out, "Code gratuit " \o idx, val))

\* \bkey\s*1\s*:\s* at p of the lowered text: where the key group starts
KeyLabelEnd(low, p) ==
    IF ~(IsBoundary(low, p)) THEN 0
    ELSE Many0(low, Lit(low, Many0(low, Lit(low, Many0(low, Lit(low, p, "key"), WhiteSpace), "1"),
                                   WhiteSpace), ":"), WhiteSpace)

FirstKey1(flat) ==
    LET low == Lower(flat)
        alnum == AsciiLetters \cup Digits
        hits == {p \in 1..Len(flat) : Many1(flat, KeyLabelEnd(low, p), alnum) # 0}
        g == KeyLabelEnd(low, Least(hits))
    IN  IF hits = {} THEN "" ELSE Strip(SubSeq(flat, g, Many1(flat, g, alnum) - 1))

extract_codes_and_key(text) ==
    LET flat == CollapseWhite(text)
        out == CodesFrom(flat, Lower(flat), 1, EmptyDict)
        k1 == FirstKey1(flat)
    IN  IF k1 # "" THEN DictSet(out, "key 1", k1) ELSE out

(***************************************************************************)
(* process_pdf, from the extracted text on.                                *)
(***************************************************************************)
MIN_NUMERIC_FIELDS == 6

\* float(s) succeeds, for the strings a record slot can hold: the empty string and
\* the cleaned numeric tokens (sign, digits, optional point and digits)
is_num(s) ==
    LET t == Strip(s)
        p0 == IF t # "" /\ Char(t, 1) \in {"-", "+"} THEN 2 ELSE 1
        p1 == Many1(t, p0, Digits)
        p2 == IF p1 # 0 /\ p1 <= Len(t) /\ Char(t, p1) = "." THEN RunEnd(t, p1 + 1, Digits) ELSE p1
    IN  p2 = Len(t) + 1

\* {k: "" for k in HEADERS}
BlankRow == [k \in Range(HEADERS) |-> ""]

\* the row of a document whose text is blank or whose processing raised
IdOnlyRow(stem) == [BlankRow EXCEPT !["id"] = stem]

numeric_count(row) ==
    Cardinality({k \in DOMAIN row :
                   /\ StartsAt(k, 1, "CA ") \/ StartsAt(k, 1, "Vente ")
                   /\ is_num(row[k])})

\* the row after steps 2 and 3 of process_pdf
FilledRow(text) ==
    DictUpdate(DictUpdate(DictUpdate(BlankRow, parse_header(text)),
                          extract_codes_and_key(text)),
               parse_blocks_adaptive(text))

\* ok = numeric_count >= MIN_NUMERIC_FIELDS; return row, ok
Scored(row) == <<row, numeric_count(row) >= MIN_NUMERIC_FIELDS>>

\* process_pdf after extract_text_any returned raw_text: <<row, ok>>
process_pdf(stem, raw_text) ==
    LET text == norm_spaces_keep_lines(raw_text)
    IN  IF Strip(text) = "" THEN <<IdOnlyRow(stem), FALSE>>
        ELSE Scored(FilledRow(text))

(***************************************************************************)
(* extract_text_any as a function of what each backend would return.       *)
(***************************************************************************)
\* the backends, in the order extract_text_any calls them
BACKENDS == <<"pdftotext -layout", "pdftotext raw", "PyPDF2", "tesseract">>

extract_text_any(outs) ==
    IF strip_ok(outs[1]) THEN outs[1]
    ELSE IF strip_ok(outs[2]) THEN outs[2]
    ELSE IF strip_ok(outs[3]) THEN outs[3]
    ELSE outs[4]

(***************************************************************************)
(* Bounded texts: all strings over an alphabet up to a length.             *)
(***************************************************************************)
RECURSIVE StringsUpTo(_, _)
StringsUpTo(alphabet, n) ==
    IF n = 0 THEN {""}
    ELSE LET shorter == StringsUpTo(alphabet, n - 1)
         IN  shorter \cup {s \o c : s \in shorter, c \in alphabet}

\* all texts of 1..n lines drawn from a pool of lines
RECURSIVE TextsOfLines(_, _)
TextsOfLines(pool, n) ==
    IF n <= 1 THEN pool
    ELSE LET shorter == TextsOfLines(pool, n - 1)
         IN  shorter \cup {t \o "\n" \o ln : t \in shorter, ln \in pool}

VARIABLES
    n_in, n_out,
    e_pc, e_calls, e_txt,
    p_pc, p_stem, p_raw, p_text, p_row, p_ok, p_out, p_lines, p_hidx, p_i, p_canon,
    pc, runs, root, pdfs, pdf_i, results, failed_files, raised, out_csv, log

norm_vars == <<n_in, n_out>>
extract_vars == <<e_pc, e_calls, e_txt>>
pdf_vars == <<p_pc, p_stem, p_raw, p_text, p_row, p_ok, p_out, p_lines, p_hidx, p_i, p_canon>>
batch_vars == <<pc, runs, root, pdfs, pdf_i, results, failed_files, raised, out_csv, log>>
vars == <<norm_vars, extract_vars, pdf_vars, batch_vars>>

\* each specification below runs one part of the program; the other parts stay idle
NormIdle == n_in = "" /\ n_out = <<>>

ExtractIdle == e_pc = "idle" /\ e_calls = <<>> /\ e_txt = None

PdfIdle ==
    /\ p_pc = "idle" /\ p_stem = "" /\ p_raw = "" /\ p_text = "" /\ p_row = EmptyDict
    /\ p_ok = FALSE /\ p_out = EmptyDict /\ p_lines = <<>> /\ p_hidx = 0 /\ p_i = 0
    /\ p_canon = None

BatchIdle ==
    /\ pc = "off" /\ runs = 0 /\ root = {} /\ pdfs = <<>> /\ pdf_i = 0 /\ results = <<>>
    /\ failed_files = <<>> /\ raised = {} /\ out_csv = <<>> /\ log = <<>>

(***************************************************************************)
(* The text normalizer applied again and again to one text.                *)
(***************************************************************************)
MaxNormLen == 3
MaxNormPasses == 2
NormAlphabet == {"a", " ", "\n", "\r", "\t", NBSP}

NormInit ==
    /\ n_in \in StringsUpTo(NormAlphabet, MaxNormLen)
    /\ n_out = <<>>
    /\ ExtractIdle /\ PdfIdle /\ BatchIdle

\* n_out[j] is the text after j passes
Normalize ==
    /\ Len(n_out) < MaxNormPasses
    /\ n_out' = Append(n_out, norm_spaces_keep_lines(IF n_out = <<>> THEN n_in
                                                     ELSE n_out[Len(n_out)]))
    /\ UNCHANGED <<n_in, extract_vars, pdf_vars, batch_vars>>

SpecNorm == NormInit /\ [][Normalize]_vars

(***************************************************************************)
(* extract_text_any, one backend call at a time.  A backend returns any    *)
(* text; a missing tool, a crash or a page without text is the empty text. *)
(***************************************************************************)
MaxExtractLen == 2
ExtractAlphabet == {" ", "x", "y"}
BackendTexts == StringsUpTo(ExtractAlphabet, MaxExtractLen)

ExtractInit ==
    /\ e_pc = "layout" /\ e_calls = <<>> /\ e_txt = None
    /\ NormIdle /\ PdfIdle /\ BatchIdle

\* txt = backend(...); if strip_ok(txt): return txt
TryBackend(here, n, next) ==
    /\ e_pc = here
    /\ \E txt \in BackendTexts :
          /\ e_calls' = Append(e_calls, <<BACKENDS[n], txt>>)
          /\ IF strip_ok(txt)
             THEN e_txt' = txt /\ e_pc' = "done"
             ELSE e_txt' = e_txt /\ e_pc' = next
    /\ UNCHANGED <<norm_vars, pdf_vars, batch_vars>>

RunPdftotextLayout == TryBackend("layout", 1, "raw")

RunPdftotextRaw == TryBackend("raw", 2, "pypdf2")

RunPypdf2 == TryBackend("pypdf2", 3, "ocr")

\* txt = run_tesseract_cli_on_pdf(pdf_path); return txt
RunTesseract ==
    /\ e_pc = "ocr"
    /\ \E txt \in BackendTexts :
          /\ e_calls' = Append(e_calls, <<BACKENDS[4], txt>>)
          /\ e_txt' = txt
          /\ e_pc' = "done"
    /\ UNCHANGED <<norm_vars, pdf_vars, batch_vars>>

ExtractNext == RunPdftotextLayout \/ RunPdftotextRaw \/ RunPypdf2 \/ RunTesseract

SpecExtract == ExtractInit /\ [][ExtractNext]_vars

(***************************************************************************)
(* process_pdf on one extracted text, one step and one scanned line at a   *)
(* time.                                                                   *)
(***************************************************************************)
MaxParseLines == 2

AllVariants ==
    UNION {Range(LABELS_CA[n][2]) : n \in 1..Len(LABELS_CA)}
    \cup UNION {Range(LABELS_VENTES[n][2]) : n \in 1..Len(LABELS_VENTES)}

NumberRuns == {"", "7", "100 50 10", "40 20 5", "120,50 45€ 3.2"}

\* one line: a label variant followed by a run of numbers
LabelLines == {v \o " " \o nums : v \in AllVariants, nums \in NumberRuns}

\* a label variant alone on its line, its numbers on the next line
SplitLabelTexts == {v \o "\n" \o nums : v \in AllVariants, nums \in NumberRuns \ {""}}

ShortLines ==
    {lbl \o nums : lbl \in {"Total", "Cash", "Cashless 1 Aztek", "Cumul Interim"},
                   nums \in {"", " 7", " 100 50 10", " 40 20 5"}}

ParseTexts ==
    {"", " \n"} \cup LabelLines \cup SplitLabelTexts \cup TextsOfLines(ShortLines, MaxParseLines)

PdfInit ==
    /\ p_pc = "start" /\ p_stem = "doc1" /\ p_raw \in ParseTexts
    /\ p_text = "" /\ p_row = EmptyDict /\ p_ok = FALSE /\ p_out = EmptyDict
    /\ p_lines = <<>> /\ p_hidx = 0 /\ p_i = 0 /\ p_canon = None
    /\ NormIdle /\ ExtractIdle /\ BatchIdle

\* text = norm_spaces_keep_lines(raw_text); row = blank; the text is blank: return row, False
ProcBlank ==
    /\ p_pc = "start"
    /\ Strip(norm_spaces_keep_lines(p_raw)) = ""
    /\ p_text' = norm_spaces_keep_lines(p_raw)
    /\ p_row' = IdOnlyRow(p_stem)
    /\ p_ok' = FALSE
    /\ p_pc' = "done"
    /\ UNCHANGED <<p_stem, p_raw, p_out, p_lines, p_hidx, p_i, p_canon>>
    /\ UNCHANGED <<norm_vars, extract_vars, batch_vars>>

\* the text is not blank: row.update(parse_header(text)); row.update(extract_codes_and_key(text));
\* then the start of parse_blocks_adaptive: out = {}, lines_norm, header_idx
ProcHeader ==
    /\ p_pc = "start"
    /\ Strip(norm_spaces_keep_lines(p_raw)) # ""
    /\ p_text' = norm_spaces_keep_lines(p_raw)
    /\ p_row' = DictUpdate(DictUpdate(BlankRow, parse_header(p_text')),
                           extract_codes_and_key(p_text'))
    /\ p_out' = EmptyDict
    /\ p_lines' = LinesNorm(p_text')
    /\ p_hidx' = find_col_header_positions(p_lines')
    /\ p_i' = 1
    /\ p_pc' = "ca"
    /\ UNCHANGED <<p_stem, p_raw, p_ok, p_canon>>
    /\ UNCHANGED <<norm_vars, extract_vars, batch_vars>>

\* one iteration of feed_section(is_ca): p_canon is the label the line resolved to
FeedStep(here, is_ca) ==
    /\ p_pc = here
    /\ p_i <= Len(p_lines)
    /\ p_canon' = canonical_from_line(p_lines[p_i], is_ca)
    /\ p_out' = StoreTriple(p_out, p_canon', Triple(p_lines, p_hidx, p_i))
    /\ p_i' = p_i + 1
    /\ UNCHANGED <<p_pc, p_stem, p_raw, p_text, p_row, p_ok, p_lines, p_hidx>>
    /\ UNCHANGED <<norm_vars, extract_vars, batch_vars>>

FeedCA == FeedStep("ca", TRUE)

FeedVentes == FeedStep("ventes", FALSE)

\* feed_section(is_ca=True) is over: feed_section(is_ca=False) starts
EndCA ==
    /\ p_pc = "ca"
    /\ p_i > Len(p_lines)
    /\ p_i' = 1
    /\ p_pc' = "ventes"
    /\ UNCHANGED <<p_stem, p_raw, p_text, p_row, p_ok, p_out, p_lines, p_hidx, p_canon>>
    /\ UNCHANGED <<norm_vars, extract_vars, batch_vars>>

\* parse_blocks_adaptive returns: row.update(parsed), the score, return row, ok
ProcScore ==
    /\ p_pc = "ventes"
    /\ p_i > Len(p_lines)
    /\ p_row' = DictUpdate(p_row, p_out)
    /\ p_ok' = (numeric_count(p_row') >= MIN_NUMERIC_FIELDS)
    /\ p_pc' = "done"
    /\ UNCHANGED <<p_stem, p_raw, p_text, p_out, p_lines, p_hidx, p_i, p_canon>>
    /\ UNCHANGED <<norm_vars, extract_vars, batch_vars>>

PdfNext == ProcBlank \/ ProcHeader \/ FeedCA \/ EndCA \/ FeedVentes \/ ProcScore

SpecPdf == PdfInit /\ [][PdfNext]_vars

(***************************************************************************)
(* main: batch runs over the input directory, appending to the output      *)
(* table.  The output file is the sequence of its lines, each line the     *)
(* sequence of its cells; it is absent while no run has opened it.         *)
(***************************************************************************)
MaxPdfs == 3
MaxRuns == 2

\* the texts the documents of a batch can hold
BatchTexts == {"", "Total 100 50 10\nCash 40 20 5", "Total 100 50 10\nCode gratuit 8 : 12"}

\* pdf.stem and pdf.name of the n-th file of the sorted directory listing
Stem(n) == "doc" \o ToString(n)
Name(n) == Stem(n) \o ".pdf"

\* what extract_text_any can return for a document of the batch
BatchRaws == {extract_text_any(outs) : outs \in [1..Len(BACKENDS) -> BatchTexts]}

\* process_pdf(pdf) for the n-th file of the listing, by the text extracted from it
Processed == [n \in 1..MaxPdfs |-> [raw \in BatchRaws |-> process_pdf(Stem(n), raw)]]

\* the cells csv.DictWriter writes for a row, in column order
CsvLine(row) == [j \in 1..Len(HEADERS) |-> row[HEADERS[j]]]

\* DictWriter._dict_to_list raises ValueError on a key outside fieldnames
Writable(row) == DOMAIN row \subseteq Range(HEADERS)

Init ==
    /\ pc = "idle" /\ runs = 0 /\ root = {} /\ pdfs = <<>> /\ pdf_i = 0 /\ results = <<>>
    /\ failed_files = <<>> /\ raised = {} /\ out_csv = <<>> /\ log = <<>>
    /\ NormIdle /\ ExtractIdle /\ PdfIdle

\* pdfs = sorted(...): no PDF, and main returns
StartEmptyRun ==
    /\ pc = "idle"
    /\ runs < MaxRuns
    /\ runs' = runs + 1
    /\ root' = {}
    /\ pdfs' = <<>>
    /\ log' = Append(log, [pdfs |-> <<>>, results |-> <<>>, failed_files |-> <<>>,
                           raised |-> {}, before |-> out_csv, outcome |-> "nothing"])
    /\ UNCHANGED <<pc, pdf_i, results, failed_files, raised, out_csv>>
    /\ UNCHANGED <<norm_vars, extract_vars, pdf_vars>>

\* pdfs = sorted(...); results, failed_files = [], []
StartRun ==
    /\ pc = "idle"
    /\ runs < MaxRuns
    /\ \E S \in SUBSET (1..MaxPdfs) :
          /\ S # {}
          /\ root' = S
          /\ pdfs' = SortedSeq(S)
    /\ runs' = runs + 1
    /\ pdf_i' = 1
    /\ results' = <<>>
    /\ failed_files' = <<>>
    /\ raised' = {}
    /\ pc' = "loop"
    /\ UNCHANGED <<out_csv, log>>
    /\ UNCHANGED <<norm_vars, extract_vars, pdf_vars>>

\* try: row, ok = process_pdf(pdf); results.append(row); if not ok: failed_files.append(pdf.name)
ProcessPdf ==
    /\ pc = "loop"
    /\ pdf_i <= Len(pdfs)
    /\ \E raw \in BatchRaws :
          \E r \in {Processed[pdfs[pdf_i]][raw]} :
             /\ results' = Append(results, r[1])
             /\ failed_files' = IF r[2] THEN failed_files
                                ELSE Append(failed_files, Name(pdfs[pdf_i]))
    /\ pdf_i' = pdf_i + 1
    /\ UNCHANGED <<pc, runs, root, pdfs, raised, out_csv, log>>
    /\ UNCHANGED <<norm_vars, extract_vars, pdf_vars>>

\* except Exception: the row holds the stem only, the file is listed as failed
ProcessPdfRaises ==
    /\ pc = "loop"
    /\ pdf_i <= Len(pdfs)
    /\ results' = Append(results, IdOnlyRow(Stem(pdfs[pdf_i])))
    /\ failed_files' = Append(failed_files, Name(pdfs[pdf_i]))
    /\ raised' = raised \cup {pdf_i}
    /\ pdf_i' = pdf_i + 1
    /\ UNCHANGED <<pc, runs, root, pdfs, out_csv, log>>
    /\ UNCHANGED <<norm_vars, extract_vars, pdf_vars>>

\* the lines one run appends: the header when the file did not exist, then the rows,
\* up to the first row writerows cannot write
Appended(file, rows) ==
    LET bad == {j \in 1..Len(rows) : ~Writable(rows[j])}
        n == IF bad = {} THEN Len(rows) ELSE Least(bad) - 1
    IN  (IF file = <<>> THEN <<HEADERS>> ELSE <<>>) \o [j \in 1..n |-> CsvLine(rows[j])]

\* open(OUT_CSV, "a"); writeheader() if the file did not exist; writerows(results); summary
WriteCsv ==
    /\ pc = "loop"
    /\ pdf_i > Len(pdfs)
    /\ \A j \in 1..Len(results) : Writable(results[j])
    /\ out_csv' = out_csv \o Appended(out_csv, results)
    /\ log' = Append(log, [pdfs |-> pdfs, results |-> results, failed_files |-> failed_files,
                           raised |-> raised, before |-> out_csv, outcome |-> "written"])
    /\ pc' = "idle"
    /\ UNCHANGED <<runs, root, pdfs, pdf_i, results, failed_files, raised>>
    /\ UNCHANGED <<norm_vars, extract_vars, pdf_vars>>

\* writerows raises ValueError at the first row with a key outside the schema: the rows
\* before it are in the file, main ends with the exception
WriteCsvRaises ==
    /\ pc = "loop"
    /\ pdf_i > Len(pdfs)
    /\ \E j \in 1..Len(results) : ~Writable(results[j])
    /\ out_csv' = out_csv \o Appended(out_csv, results)
    /\ log' = Append(log, [pdfs |-> pdfs, results |-> results, failed_files |-> failed_files,
                           raised |-> raised, before |-> out_csv, outcome |-> "ValueError"])
    /\ pc' = "idle"
    /\ UNCHANGED <<runs, root, pdfs, pdf_i, results, failed_files, raised>>
    /\ UNCHANGED <<norm_vars, extract_vars, pdf_vars>>

Next ==
    StartEmptyRun \/ StartRun \/ ProcessPdf \/ ProcessPdfRaises \/ WriteCsv \/ WriteCsvRaises

Spec == Init /\ [][Next]_vars

(***************************************************************************)
(* Properties of extract_text_any.                                         *)
(***************************************************************************)
\* a text with no character outside white space
IsBlank(s) == \A p \in 1..Len(s) : Char(s, p) \in WhiteSpace

\* C3, as the specification words it: extract_text_any stops at the first backend
\* whose result is not the empty text, so no backend is called after such a result
C3_StopsAtFirstNonEmpty ==
    \A j \in 1..Len(e_calls) : e_calls[j][2] # "" => j = Len(e_calls)

\* C3, as the code has it: the backends are called in the order of BACKENDS; a call
\* is followed by another exactly when its result is blank (empty or white space only)
\* and it is not the last backend; the text returned is the result of the last call
C3_StopsAtFirstNonBlank ==
    /\ Len(e_calls) <= Len(BACKENDS)
    /\ \A j \in 1..Len(e_calls) : e_calls[j][1] = BACKENDS[j]
    /\ \A j \in 1..(Len(e_calls) - 1) : IsBlank(e_calls[j][2])
    /\ e_pc = "done" =>
          /\ e_calls # <<>>
          /\ e_txt = e_calls[Len(e_calls)][2]
          /\ Len(e_calls) = Len(BACKENDS) \/ ~IsBlank(e_txt)
    /\ e_pc # "done" =>
          /\ e_txt = None
          /\ \A j \in 1..Len(e_calls) : IsBlank(e_calls[j][2])

\* the first backend returned the empty text, the second a text: that text is returned
\* and neither PyPDF2 nor tesseract was called
C3_SecondBackendReturned ==
    /\ e_pc = "done"
    /\ Len(e_calls) = 2
    /\ e_calls[1] = <<"pdftotext -layout", "">>
    /\ e_calls[2] = <<"pdftotext raw", "xy">>
    /\ e_txt = "xy"

(***************************************************************************)
(* Properties of norm_spaces_keep_lines.                                   *)
(***************************************************************************)
\* C7: normalizing a normalized text returns it unchanged, norm(norm(s)) = norm(s)
C7_Idempotent == Len(n_out) >= 2 => n_out[2] = n_out[1]

(***************************************************************************)
(* Properties of process_pdf and of the block parser.                      *)
(***************************************************************************)
\* the <<Cumul, Interim, Interim2>> slots of a canonical field in a record
TripleOf(row, canon) ==
    <<row[SlotKey(canon, "Cumul")], row[SlotKey(canon, "Interim")],
      row[SlotKey(canon, "Interim2")]>>

LabelMaps == {LABELS_CA, LABELS_VENTES}

\* the CA and Vente slots of a record that hold a value
PopulatedSlots(row) ==
    {key \in DOMAIN row :
       /\ \E lm \in LabelMaps : \E n \in 1..Len(lm) : \E sl \in Range(Slots) :
             key = SlotKey(lm[n][1], sl)
       /\ row[key] # ""}

\* case-insensitive occurrence of a label variant in a text
Occurs(variant, text) == Contains(Lower(text), Lower(variant))

\* the <<variant, canon>> pairs of a label map whose variant occurs in the line
Occurring(label_map, ln) ==
    UNION {{<<label_map[n][2][m], label_map[n][1]>> : m \in 1..Len(label_map[n][2])} :
             n \in 1..Len(label_map)}
    \cap {vc \in AllVariants \X (Range(CanonsOf(LABELS_CA)) \cup Range(CanonsOf(LABELS_VENTES))) :
            Occurs(vc[1], ln)}

\* C4: the text "Total 100 50 10" / "Cash 40 20 5" yields CA total = (100, 50, 10),
\* CA Espece = (40, 20, 5), exactly 6 populated CA/Vente slots, and a successful document
C4_EndToEnd ==
    (p_pc = "done" /\ p_raw = "Total 100 50 10\nCash 40 20 5") =>
        /\ TripleOf(p_row, "CA total") = <<"100", "50", "10">>
        /\ TripleOf(p_row, "CA Espece") = <<"40", "20", "5">>
        /\ Cardinality(PopulatedSlots(p_row)) = 6
        /\ numeric_count(p_row) = 6
        /\ p_ok

\* C5: for every canonical field and every variant of it, the text made of the variant
\* followed by the tokens 120,50 45€ 3.2 (on its line or on the next) gives the field
\* the triple (120.50, 45, 3.2)
C5_VariantTriple ==
    p_pc = "done" =>
        \A lm \in LabelMaps : \A n \in 1..Len(lm) : \A m \in 1..Len(lm[n][2]) :
            p_raw \in {lm[n][2][m] \o " 120,50 45€ 3.2", lm[n][2][m] \o "\n120,50 45€ 3.2"}
            => TripleOf(p_row, lm[n][1]) = <<"120.50", "45", "3.2">>

\* C6: a canonical field none of whose variants occurs in the text has three empty slots
C6_AbsentFieldEmpty ==
    p_pc = "done" =>
        \A lm \in LabelMaps : \A n \in 1..Len(lm) :
            (\A m \in 1..Len(lm[n][2]) : ~Occurs(lm[n][2][m], p_raw))
            => TripleOf(p_row, lm[n][1]) = <<"", "", "">>

\* C8: a populated slot of the parse result is never overwritten: whatever a later
\* matching line brings, a slot that holds a value keeps it
C8_NoOverwrite ==
    [][\A key \in DOMAIN p_out :
          p_out[key] # "" => key \in DOMAIN p_out' /\ p_out'[key] = p_out[key]]_vars

\* C9: a scanned line in which a variant of one field occurs together with a shorter
\* variant of another field, contained in it, resolves to the field of the longest
\* variant that occurs in the line
C9_LongestVariantWins ==
    (p_pc \in {"ca", "ventes"} /\ p_i > 1) =>
        LET occ == Occurring(IF p_pc = "ca" THEN LABELS_CA ELSE LABELS_VENTES, p_lines[p_i - 1])
            longest == {vc \in occ : \A o \in occ : Len(o[1]) <= Len(vc[1])}
            nested == \E long \in occ : \E short \in occ :
                         /\ short[2] # long[2]
                         /\ Len(short[1]) < Len(long[1])
                         /\ Occurs(short[1], long[1])
        IN  nested => p_canon \in {vc[2] : vc \in longest}

\* C10: the triple of a canonical field is the one read at the first line that resolves
\* to the field; later lines resolving to the same field do not change it
C10_FirstOccurrenceDecides ==
    p_pc = "done" =>
        \A is_ca \in BOOLEAN : \A i \in 1..Len(p_lines) :
            LET canon == canonical_from_line(p_lines[i], is_ca)
            IN  (/\ canon # None
                 /\ \A j \in 1..(i - 1) : canonical_from_line(p_lines[j], is_ca) # canon)
                => TripleOf(p_row, canon) = Triple(p_lines, p_hidx, i)

(***************************************************************************)
(* Properties of the batch run.  log[n] records the n-th run that ended:   *)
(* its listing, its rows, the files it reported as failed, the documents   *)
(* whose processing raised, and the output file before the run.            *)
(***************************************************************************)
\* the output file after the n-th ended run
FileAfter(n) == IF n < Len(log) THEN log[n + 1].before ELSE out_csv

\* the lines of a list of rows, one line per row
RowLines(rows) == [j \in 1..Len(rows) |-> CsvLine(rows[j])]

\* the header line, for a file that did not exist
HeaderIfNew(file) == IF file = <<>> THEN <<HEADERS>> ELSE <<>>

\* C1: a run over a non-empty listing writes the table with exactly one row per PDF, in
\* the sorted order of the listing; a document whose processing raised has the row that
\* holds its stem only and is listed as failed
C1_EveryPdfOneRow ==
    \A n \in 1..Len(log) :
        log[n].pdfs # <<>> =>
            /\ \A j \in 1..(Len(log[n].pdfs) - 1) : log[n].pdfs[j] < log[n].pdfs[j + 1]
            /\ Len(log[n].results) = Len(log[n].pdfs)
            /\ \A j \in log[n].raised :
                  /\ log[n].results[j] = IdOnlyRow(Stem(log[n].pdfs[j]))
                  /\ Name(log[n].pdfs[j]) \in Range(log[n].failed_files)
            /\ log[n].outcome = "written"
            /\ FileAfter(n) = log[n].before \o HeaderIfNew(log[n].before)
                                \o RowLines(log[n].results)

\* C2: after two runs over disjoint non-empty listings, the first on an absent file, the
\* file is one header line, then the rows of run 1, then the rows of run 2, each in
\* processing order
C2_AppendMode ==
    (/\ Len(log) = 2
     /\ log[1].pdfs # <<>> /\ log[2].pdfs # <<>>
     /\ Range(log[1].pdfs) \cap Range(log[2].pdfs) = {}
     /\ log[1].before = <<>>)
    => out_csv = <<HEADERS>> \o RowLines(log[1].results) \o RowLines(log[2].results)

\* C11: every record process_pdf returns, hence every row main collects for the CSV
\* writer, has exactly the keys of HEADERS: no populating step adds a key outside the
\* schema, so each row can be written
C11_SchemaKeys ==
    \A j \in 1..Len(results) :
        /\ DOMAIN results[j] = Range(HEADERS)
        /\ Writable(results[j])

====
